---- MODULE Spec2Model ----
(***************************************************************************)
(* UVA sustainability metrics: the batch aggregator of                     *)
(* scripts/convert_uva_data_v2.py and the on-request query layer of        *)
(* src/app.py, both reading assets/uva_energy_data_template.csv, with the  *)
(* category mappers of scripts/process_uva_data.py and                     *)
(* scripts/convert_template_to_csv.py.                                     *)
(*                                                                         *)
(* Text is a sequence of one-character strings, so that strip(), lower(),  *)
(* substring search, int()/float() parsing and string ordering are         *)
(* computed and not assumed.  A float number of kWh is held exactly as an  *)
(* integer number of thousandths of a kWh ("milli-kWh"): every energy      *)
(* token of the model is a whole number of MMBtu and 293.071 has three     *)
(* decimals.  co2_emissions_tons, a float with one decimal, is held as an  *)
(* integer number of tenths of a ton.                                      *)
(***************************************************************************)
EXTENDS Integers, Sequences, FiniteSets, TLC

VARIABLES file, source, pending, script, mapped, response, pc, loaded, versions

vars ==
  <<file, source, pending, script, mapped, response, pc, loaded, versions>>

----------------------------------------------------------------------------
(* Text                                                                    *)

\* The characters of the model in ascending code-point order.
CodePoints ==
  <<" ", "-", ".", "0", "1", "2", "3", "4", "5", "6", "7", "8", "9",
    "A", "B", "C", "D", "E", "F", "G", "H", "I", "J", "K", "L", "M",
    "N", "O", "P", "Q", "R", "S", "T", "U", "V", "W", "X", "Y", "Z",
    "_", "a", "b", "c", "d", "e", "f", "g", "h", "i", "j", "k", "l", "m",
    "n", "o", "p", "q", "r", "s", "t", "u", "v", "w", "x", "y", "z">>

CharSet == {CodePoints[i] : i \in 1..Len(CodePoints)}

Ord == [c \in CharSet |-> CHOOSE i \in 1..Len(CodePoints) : CodePoints[i] = c]

IsUpper(c) == Ord[c] >= Ord["A"] /\ Ord[c] <= Ord["Z"]

\* str.lower() on one character
LowerChar(c) ==
  IF IsUpper(c) THEN CodePoints[Ord[c] - Ord["A"] + Ord["a"]] ELSE c

\* str.lower()
Lower(s) == [i \in 1..Len(s) |-> LowerChar(s[i])]

RECURSIVE LStrip(_)
LStrip(s) == IF s # <<>> /\ s[1] = " " THEN LStrip(Tail(s)) ELSE s

RECURSIVE RStrip(_)
RStrip(s) ==
  IF s # <<>> /\ s[Len(s)] = " " THEN RStrip(SubSeq(s, 1, Len(s) - 1)) ELSE s

\* str.strip()
Strip(s) == RStrip(LStrip(s))

\* Python's < on str: lexicographic by code point, a proper prefix is smaller
RECURSIVE StrLess(_, _)
StrLess(a, b) ==
  IF b = <<>> THEN FALSE
  ELSE IF a = <<>> THEN TRUE
  ELSE IF a[1] = b[1] THEN StrLess(Tail(a), Tail(b))
  ELSE Ord[a[1]] < Ord[b[1]]

\* Python's "sub in s"
Contains(sub, s) ==
  \E i \in 0..(Len(s) - Len(sub)) :
     \A j \in 1..Len(sub) : s[i + j] = sub[j]

Digits == {"0", "1", "2", "3", "4", "5", "6", "7", "8", "9"}

DigitValue(c) == Ord[c] - Ord["0"]

\* int(s) and float(s) succeed on the tokens of the model exactly when the
\* stripped token is a non-empty run of decimal digits (leading zeros allowed);
\* otherwise they raise ValueError.
Parses(s) ==
  /\ Strip(s) # <<>>
  /\ \A i \in 1..Len(Strip(s)) : Strip(s)[i] \in Digits

RECURSIVE DigitsValue(_)
DigitsValue(s) ==
  IF s = <<>> THEN 0
  ELSE 10 * DigitsValue(SubSeq(s, 1, Len(s) - 1)) + DigitValue(s[Len(s)])

\* the value of int(s) / float(s) when Parses(s)
ParseNumber(s) == DigitsValue(Strip(s))

Empty == <<>>

Dots == <<".", ".", ".">>

----------------------------------------------------------------------------
(* scripts/convert_uva_data_v2.py                                          *)

\* 293.071 kWh per MMBtu, in thousandths
MMBTU_TO_KWH == 293071

\* Python None / a value
None == <<>>

Some(v) == <<v>>

\* Python truthiness of an optional integer: None and 0 are falsy
Falsy(o) == o = None \/ o[1] = 0

safe_get(row, key) == Strip(row[key])

\* the conversion with round() in the place of int()
convert_mmbtu_to_kwh_rounded(mmbtu) ==
  IF mmbtu = Empty \/ mmbtu = Dots THEN None
  ELSE IF Parses(mmbtu)
    THEN Some((ParseNumber(mmbtu) * MMBTU_TO_KWH + 500) \div 1000)
    ELSE None

convert_mmbtu_to_kwh(mmbtu) ==
  IF mmbtu = Empty \/ mmbtu = Dots THEN None
  ELSE IF Parses(mmbtu)
    THEN Some((ParseNumber(mmbtu) * MMBTU_TO_KWH) \div 1000)
    ELSE None

\* round(float(energy_kwh) * 0.0004, 1), in tenths of a ton; no energy of the
\* model puts the product on a tie between two tenths
calculate_co2_from_energy(energy_kwh) ==
  IF energy_kwh = 0 THEN 0 ELSE (energy_kwh * 4 + 500) \div 1000

estimate_water_from_energy(energy_kwh) ==
  IF energy_kwh = 0 THEN 0 ELSE energy_kwh \div 2

estimate_waste_from_energy(energy_kwh) ==
  IF energy_kwh = 0 THEN 0 ELSE energy_kwh \div 30

\* the metric_type categories, as text
Text_academic == <<"a", "c", "a", "d", "e", "m", "i", "c">>

Text_student_life == <<"s", "t", "u", "d", "e", "n", "t", "_", "l", "i", "f", "e">>

Text_athletic == <<"a", "t", "h", "l", "e", "t", "i", "c">>

Text_healthcare == <<"h", "e", "a", "l", "t", "h", "c", "a", "r", "e">>

Text_administrative == <<"a", "d", "m", "i", "n", "i", "s", "t", "r", "a", "t", "i", "v", "e">>

Text_historic == <<"h", "i", "s", "t", "o", "r", "i", "c">>

Text_other == <<"o", "t", "h", "e", "r">>

\* the ordered keyword table of map_primary_use_to_metric_type
mapping ==
  <<<<<<"a", "c", "a", "d", "e", "m", "i", "c">>, Text_academic>>,
    <<<<"m", "u", "l", "t", "i", "-", "u", "s", "e">>, Text_student_life>>,
    <<<<"m", "u", "l", "t", "i", "-", "p", "u", "r", "p", "o", "s", "e">>, Text_student_life>>,
    <<<<"f", "i", "t", "n", "e", "s", "s">>, Text_athletic>>,
    <<<<"m", "e", "d", "i", "c", "a", "l">>, Text_healthcare>>,
    <<<<"d", "i", "n", "i", "n", "g">>, Text_student_life>>,
    <<<<"o", "f", "f", "i", "c", "e">>, Text_administrative>>,
    <<<<"a", "d", "m", "i", "n", "i", "s", "t", "r", "a", "t", "i", "v", "e">>, Text_administrative>>,
    <<<<"h", "i", "s", "t", "o", "r", "i", "c">>, Text_historic>>>>

RECURSIVE FirstMatch(_, _)
FirstMatch(primary_use_lower, i) ==
  IF i > Len(mapping) THEN Text_other
  ELSE IF Contains(mapping[i][1], primary_use_lower) THEN mapping[i][2]
  ELSE FirstMatch(primary_use_lower, i + 1)

map_primary_use_to_metric_type(primary_use) ==
  IF primary_use = Empty \/ primary_use = Dots THEN Text_other
  ELSE FirstMatch(Lower(primary_use), 1)

\* the keyword table of map_primary_use_to_metric_type in
\* scripts/process_uva_data.py
process_mapping ==
  <<<<<<"a", "c", "a", "d", "e", "m", "i", "c">>, Text_academic>>,
    <<<<"m", "u", "l", "t", "i", "-", "u", "s", "e">>, Text_student_life>>,
    <<<<"m", "u", "l", "t", "i", "-", "p", "u", "r", "p", "o", "s", "e">>, Text_student_life>>,
    <<<<"f", "i", "t", "n", "e", "s", "s">>, Text_athletic>>,
    <<<<"m", "e", "d", "i", "c", "a", "l">>, Text_healthcare>>,
    <<<<"d", "i", "n", "i", "n", "g">>, Text_student_life>>>>

\* the keyword table of map_primary_use_to_metric_type in
\* scripts/convert_template_to_csv.py
csv_mapping ==
  <<<<<<"o", "f", "f", "i", "c", "e">>, Text_administrative>>,
    <<<<"a", "c", "a", "d", "e", "m", "i", "c">>, Text_academic>>,
    <<<<"l", "i", "b", "r", "a", "r", "y">>, Text_academic>>,
    <<<<"r", "e", "s", "i", "d", "e", "n", "t", "i", "a", "l">>, Text_student_life>>,
    <<<<"d", "i", "n", "i", "n", "g">>, Text_student_life>>,
    <<<<"r", "e", "c", "r", "e", "a", "t", "i", "o", "n">>, Text_athletic>>,
    <<<<"a", "t", "h", "l", "e", "t", "i", "c">>, Text_athletic>>,
    <<<<"h", "e", "a", "l", "t", "h", "c", "a", "r", "e">>, Text_healthcare>>,
    <<<<"h", "i", "s", "t", "o", "r", "i", "c">>, Text_historic>>,
    <<<<"a", "d", "m", "i", "n", "i", "s", "t", "r", "a", "t", "i", "v", "e">>, Text_administrative>>>>

\* the loop with the last matching entry winning
RECURSIVE FirstMatchIn_last(_, _, _)
FirstMatchIn_last(table, primary_use_lower, i) ==
  IF i > Len(table) THEN Text_other
  ELSE LET later == FirstMatchIn_last(table, primary_use_lower, i + 1)
       IN  IF later # Text_other THEN later
           ELSE IF Contains(table[i][1], primary_use_lower) THEN table[i][2]
           ELSE Text_other

\* "for key, value in mapping.items(): if key in primary_use_lower: return
\* value", and 'other' after the loop; a dict iterates in insertion order
RECURSIVE FirstMatchIn(_, _, _)
FirstMatchIn(table, primary_use_lower, i) ==
  IF i > Len(table) THEN Text_other
  ELSE IF Contains(table[i][1], primary_use_lower) THEN table[i][2]
  ELSE FirstMatchIn(table, primary_use_lower, i + 1)

\* the mapper that hands back the text it could not match
process_map_primary_use_unmatched(primary_use) ==
  IF primary_use = Empty \/ primary_use = Dots THEN Text_other
  ELSE IF FirstMatchIn(process_mapping, Lower(primary_use), 1) = Text_other
    THEN primary_use
    ELSE FirstMatchIn(process_mapping, Lower(primary_use), 1)

\* map_primary_use_to_metric_type of scripts/process_uva_data.py
process_map_primary_use_to_metric_type(primary_use) ==
  IF primary_use = Empty \/ primary_use = Dots THEN Text_other
  ELSE FirstMatchIn(process_mapping, Lower(primary_use), 1)

\* map_primary_use_to_metric_type of scripts/convert_template_to_csv.py: no
\* test for '...', which the loop sends to 'other'
csv_map_primary_use_to_metric_type(primary_use) ==
  IF primary_use = Empty THEN Text_other
  ELSE FirstMatchIn(csv_mapping, Lower(primary_use), 1)

\* aggregated: the defaultdict of convert_template_to_metrics as the sequence
\* of its items in insertion order
KeyIndex(aggregated, key) ==
  IF \E i \in 1..Len(aggregated) : aggregated[i].key = key
    THEN CHOOSE i \in 1..Len(aggregated) : aggregated[i].key = key
    ELSE 0

\* the default factory of the defaultdict
DefaultEntry(key) ==
  [key |-> key, energy_kwh |-> 0, primary_use |-> Empty,
   gross_square_feet |-> 0, occupancy |-> 0]

\* "if not entry[field] and text and text != '...'": int(float(text)), and
\* the entry is left alone when that raises ValueError
StoreNumber(old, text) ==
  IF old = 0 /\ text # Empty /\ text # Dots /\ Parses(text)
    THEN ParseNumber(text)
    ELSE old

\* the body of "for row in reader"
AggregateRow(aggregated, row) ==
  LET building == safe_get(row, "building")
      year == safe_get(row, "year")
      energy_mmbtu == safe_get(row, "energy_MMBtu")
      gross_sqft == safe_get(row, "gross_square_feet")
      occupancy == safe_get(row, "occupancy")
      primary_use == safe_get(row, "primary_use")
      energy_kwh == IF energy_mmbtu # Empty /\ energy_mmbtu # Dots
                      THEN convert_mmbtu_to_kwh(energy_mmbtu)
                      ELSE None
      key == <<building, year>>
      at == KeyIndex(aggregated, key)
      old == IF at = 0 THEN DefaultEntry(key) ELSE aggregated[at]
      new == [old EXCEPT
                !.energy_kwh = @ + energy_kwh[1],
                !.primary_use =
                   IF @ = Empty /\ primary_use # Empty /\ primary_use # Dots
                     THEN primary_use ELSE @,
                !.gross_square_feet = StoreNumber(@, gross_sqft),
                !.occupancy = StoreNumber(@, occupancy)]
  IN  IF building = Empty \/ year = Empty THEN aggregated
      ELSE IF Falsy(energy_kwh) THEN aggregated
      ELSE IF at = 0 THEN Append(aggregated, new)
      ELSE [aggregated EXCEPT ![at] = new]

RECURSIVE Aggregate(_, _)
Aggregate(rows, n) ==
  IF n = 0 THEN <<>> ELSE AggregateRow(Aggregate(rows, n - 1), rows[n])

\* Python's < on the (building, year) key tuples: both parts are str
KeyLess(k1, k2) ==
  \/ StrLess(k1[1], k2[1])
  \/ k1[1] = k2[1] /\ StrLess(k1[2], k2[2])

\* sorted(aggregated.items()): the keys of a dict are distinct, so the order
\* is decided by the keys alone
RECURSIVE SortedItems(_)
SortedItems(items) ==
  IF items = <<>> THEN <<>>
  ELSE LET m == CHOOSE i \in 1..Len(items) :
                  \A j \in 1..Len(items) :
                     j = i \/ KeyLess(items[i].key, items[j].key)
           rest == [j \in 1..(Len(items) - 1) |->
                      IF j < m THEN items[j] ELSE items[j + 1]]
       IN  <<items[m]>> \o SortedItems(rest)

\* one row of the output CSV
OutputRow(item) ==
  [building |-> item.key[1],
   year |-> ParseNumber(item.key[2]),
   energy_consumption_kwh |-> item.energy_kwh,
   water_consumption_gallons |-> estimate_water_from_energy(item.energy_kwh),
   waste_diverted_lbs |-> estimate_waste_from_energy(item.energy_kwh),
   co2_emissions_tons |-> calculate_co2_from_energy(item.energy_kwh),
   metric_type |-> map_primary_use_to_metric_type(item.primary_use)]

\* convert_template_to_metrics() on the rows of the template file: what it
\* returns, its dict and the rows it writes to sustainability_metrics.csv.
\* int(year) raises ValueError, which nothing catches, on a year that is not
\* a number; no data at all returns False before anything is written.
convert_template_to_metrics(rows) ==
  LET aggregated == Aggregate(rows, Len(rows))
      items == SortedItems(aggregated)
  IN  IF aggregated = <<>>
        THEN [ret |-> "False", aggregated |-> aggregated, rows |-> <<>>]
      ELSE IF \E i \in 1..Len(items) : ~Parses(items[i].key[2])
        THEN [ret |-> "ValueError", aggregated |-> aggregated, rows |-> <<>>]
      ELSE [ret |-> "True", aggregated |-> aggregated,
            rows |-> [i \in 1..Len(items) |-> OutputRow(items[i])]]

----------------------------------------------------------------------------
(* src/app.py                                                              *)

\* pd.read_csv raises EmptyDataError on a file without a header line
ReadCsvRaises(src) == src.columns = {}

\* "'month' in monthly_df.columns and 'energy_MMBtu' in monthly_df.columns"
MonthlyFormat(columns) == "month" \in columns /\ "energy_MMBtu" \in columns

\* pandas.read_csv: an empty field is NaN.  The year column of the model
\* holds digit tokens or nothing, which read_csv infers as a numeric column.
IsNaN(cell) == cell = Empty

\* monthly_df['building'].str: read_csv types a column that holds no value
\* as float64 (as object when the file has no rows at all), and the .str
\* accessor raises AttributeError on a column that does not hold strings.
\* The building names of the model are never numbers.
StrAccessor(df) == df = <<>> \/ \E i \in 1..Len(df) : ~IsNaN(df[i].building)

\* Series.str.contains(pat, case=False, na=False): regex defaults to True, so
\* pat is searched as a regular expression; a "." matches any one character,
\* the letters, digits and blanks of the model match themselves without case.
StrContains(pat, cell) ==
  /\ ~IsNaN(cell)
  /\ \E i \in 0..(Len(cell) - Len(pat)) :
        \A j \in 1..Len(pat) :
           pat[j] = "." \/ LowerChar(pat[j]) = LowerChar(cell[i + j])

\* monthly_df[monthly_df['building'].str.contains(...)]
FilterByBuilding(df, pat) ==
  SelectSeq(df, LAMBDA row : StrContains(pat, row.building))

\* "pd.notna(x) and str(x).strip() != ''"
NotBlank(cell) == ~IsNaN(cell) /\ Strip(cell) # Empty

\* the keys of groupby(['building', 'year']): rows with a NaN key are dropped
GroupKeys(df) ==
  {<<df[i].building, ParseNumber(df[i].year)>> :
     i \in {j \in 1..Len(df) : ~IsNaN(df[j].building) /\ ~IsNaN(df[j].year)}}

\* groupby iterates its groups in ascending key order
GroupLess(k1, k2) ==
  \/ StrLess(k1[1], k2[1])
  \/ k1[1] = k2[1] /\ k1[2] < k2[2]

RECURSIVE SortedGroups(_)
SortedGroups(keys) ==
  IF keys = {} THEN <<>>
  ELSE LET first == CHOOSE k \in keys :
                      \A other \in keys : other = k \/ GroupLess(k, other)
       IN  <<first>> \o SortedGroups(keys \ {first})

InGroup(row, key) ==
  /\ ~IsNaN(row.building) /\ ~IsNaN(row.year)
  /\ row.building = key[1] /\ ParseNumber(row.year) = key[2]

\* energy_mmbtu * MMBTU_TO_KWH of one row in milli-kWh; a blank cell is
\* skipped and the ValueError of float() is caught, both adding nothing
RowEnergy(row) ==
  IF NotBlank(row.energy_MMBtu) /\ Parses(row.energy_MMBtu)
    THEN ParseNumber(row.energy_MMBtu) * MMBTU_TO_KWH
    ELSE 0

\* the inner loop of get_all_metrics over the rows of one group
RECURSIVE GroupEnergy(_, _, _)
GroupEnergy(df, key, n) ==
  IF n = 0 THEN 0
  ELSE GroupEnergy(df, key, n - 1)
         + (IF InGroup(df[n], key) THEN RowEnergy(df[n]) ELSE 0)

\* int(x) of a float number of milli-units
Trunc(milli) == milli \div 1000

\* int(energy_kwh * 0.5)
WaterOf(milli_kwh) == (milli_kwh * 5) \div 10000

\* int(energy_kwh * 0.033); floor(floor(x) / 1000) = floor(x / 1000)
WasteOf(milli_kwh) ==
  ((milli_kwh \div 1000) * 33 + ((milli_kwh % 1000) * 33) \div 1000) \div 1000

\* round(energy_kwh * 0.0004, 1), in tenths of a ton
Co2Of(milli_kwh) == (milli_kwh * 4 + 500000) \div 1000000

\* the test with >= in the place of >
HasEnergy_or_zero(milli_kwh) == milli_kwh >= 0

\* "if energy_kwh > 0": the group is reported
HasEnergy(milli_kwh) == milli_kwh > 0

MetricOf(key, milli_kwh) ==
  [building |-> key[1],
   year |-> key[2],
   energy_consumption_kwh |-> Trunc(milli_kwh),
   water_consumption_gallons |-> WaterOf(milli_kwh),
   waste_diverted_lbs |-> WasteOf(milli_kwh),
   co2_emissions_tons |-> Co2Of(milli_kwh)]

ErrorResponse(endpoint, building, year, status) ==
  [endpoint |-> endpoint, building |-> building, year |-> year,
   status |-> status, error |-> TRUE, count |-> 0, data |-> <<>>]

DataResponse(endpoint, building, year, data) ==
  [endpoint |-> endpoint, building |-> building, year |-> year,
   status |-> 200, error |-> FALSE, count |-> Len(data), data |-> data]

\* GET /api/v1/metrics?building=&year= on the rows of the source file
get_all_metrics(rows, building, year_filter) ==
  LET monthly_df == IF building # Empty
                      THEN FilterByBuilding(rows, building)
                      ELSE rows
      groups == SortedGroups(GroupKeys(monthly_df))
      energy(i) == GroupEnergy(monthly_df, groups[i], Len(monthly_df))
      positive == {i \in 1..Len(groups) : HasEnergy(energy(i))}
      kept == {i \in positive :
                 year_filter = Empty \/ groups[i][2] = ParseNumber(year_filter)}
      result == [n \in 1..Cardinality(kept) |->
                   LET i == CHOOSE k \in kept :
                              Cardinality({m \in kept : m < k}) = n - 1
                   IN  MetricOf(groups[i], energy(i))]
  IN  IF building # Empty /\ ~StrAccessor(rows)
        THEN ErrorResponse("metrics", building, year_filter, 500)
      ELSE IF positive # {} /\ year_filter # Empty /\ ~Parses(year_filter)
        THEN ErrorResponse("metrics", building, year_filter, 500)
        ELSE DataResponse("metrics", building, year_filter, result)

\* "pd.notna(x) and str(x).strip() != '' and str(x).strip() != '...'"
Present(cell) == NotBlank(cell) /\ Strip(cell) # Dots

\* the first row, in row order, that sets building_info[field]: a numeric
\* field is set by the first present cell that int(float(x)) accepts
RECURSIVE FirstNumber(_, _)
FirstNumber(df, field) ==
  IF df = <<>> THEN None
  ELSE IF Present(df[1][field]) /\ Parses(df[1][field])
    THEN Some(ParseNumber(df[1][field]))
    ELSE FirstNumber(Tail(df), field)

RECURSIVE FirstText(_, _)
FirstText(df, field) ==
  IF df = <<>> THEN None
  ELSE IF Present(df[1][field]) THEN Some(Strip(df[1][field]))
  ELSE FirstText(Tail(df), field)

\* building_info of get_building_metrics; None is a key that was never set
building_info(building_data) ==
  [gross_square_feet |-> FirstNumber(building_data, "gross_square_feet"),
   occupancy |-> FirstNumber(building_data, "occupancy"),
   primary_use |-> FirstText(building_data, "primary_use")]

Text_unknown == <<"u", "n", "k", "n", "o", "w", "n">>

\* a row reaches the accumulation of yearly_data when its energy cell is not
\* blank and neither int(year) nor float(energy) raises
Accumulates(row) ==
  /\ NotBlank(row.energy_MMBtu)
  /\ ~IsNaN(row.year) /\ Parses(row.year)
  /\ Parses(row.energy_MMBtu)

RECURSIVE YearEnergy(_, _)
YearEnergy(df, year) ==
  IF df = <<>> THEN 0
  ELSE YearEnergy(Tail(df), year)
         + (IF Accumulates(df[1]) /\ ParseNumber(df[1].year) = year
              THEN RowEnergy(df[1]) ELSE 0)

RECURSIVE SortedYears(_)
SortedYears(years) ==
  IF years = {} THEN <<>>
  ELSE LET first == CHOOSE y \in years : \A other \in years : y <= other
       IN  <<first>> \o SortedYears(years \ {first})

\* GET /api/v1/metrics/<building_name>.  The per-row sums of energy * 0.5,
\* energy * 0.033 and energy * 0.0004 are taken from the summed energy, to
\* which they are equal in exact arithmetic.
get_building_metrics(rows, building_name) ==
  LET building_data == FilterByBuilding(rows, building_name)
      info == building_info(building_data)
      years == {ParseNumber(building_data[i].year) :
                  i \in {j \in 1..Len(building_data) :
                           Accumulates(building_data[j])}}
      sorted == SortedYears(years)
      result == [n \in 1..Len(sorted) |->
                   LET energy_kwh == YearEnergy(building_data, sorted[n])
                   IN  [building |-> building_name,
                        year |-> sorted[n],
                        energy_consumption_kwh |-> Trunc(energy_kwh),
                        water_consumption_gallons |-> WaterOf(energy_kwh),
                        waste_diverted_lbs |-> WasteOf(energy_kwh),
                        co2_emissions_tons |-> Co2Of(energy_kwh),
                        metric_type |-> IF info.primary_use = None
                                          THEN Text_unknown
                                          ELSE info.primary_use[1]]]
  IN  IF ~StrAccessor(rows)
        THEN ErrorResponse("building_metrics", building_name, Empty, 500)
      ELSE IF building_data = <<>>
        THEN ErrorResponse("building_metrics", building_name, Empty, 404)
        ELSE DataResponse("building_metrics", building_name, Empty, result)

\* the sum of f[i] over the indices of a set
RECURSIVE SumOver(_, _)
SumOver(f, indices) ==
  IF indices = {} THEN 0
  ELSE LET i == CHOOSE k \in indices : TRUE
       IN  f[i] + SumOver(f, indices \ {i})

\* request.args.get('aggregate_by', 'year')
Aggregation(aggregate_by) ==
  IF aggregate_by = None THEN "year" ELSE aggregate_by[1]

\* the responses of GET /api/v1/metrics/campus-wide; aggregation is the
\* aggregate_by the request asked for
CampusError(aggregation, year, status) ==
  [endpoint |-> "campus_wide", aggregation |-> aggregation, year |-> year,
   status |-> status, error |-> TRUE, data |-> <<>>]

CampusResponse(aggregation, year, data) ==
  [endpoint |-> "campus_wide", aggregation |-> aggregation, year |-> year,
   status |-> 200, error |-> FALSE, data |-> data]

\* "if aggregate_by == 'year'": yearly_totals, sorted by year.  A year gets
\* its entry from its first group, with or without energy; a group adds its
\* float energy, int(energy * 0.5), int(energy * 0.033), energy * 0.0004
\* and its building only "if energy_kwh > 0".
YearTotals(monthly_df) ==
  LET groups == SortedGroups(GroupKeys(monthly_df))
      energy == [i \in 1..Len(groups) |->
                   GroupEnergy(monthly_df, groups[i], Len(monthly_df))]
      water == [i \in 1..Len(groups) |-> WaterOf(energy[i])]
      waste == [i \in 1..Len(groups) |-> WasteOf(energy[i])]
      years == SortedYears({groups[i][2] : i \in 1..Len(groups)})
      counted(year) ==
        {i \in 1..Len(groups) : groups[i][2] = year /\ HasEnergy(energy[i])}
  IN  [n \in 1..Len(years) |->
         [year |-> years[n],
          energy_consumption_kwh |-> Trunc(SumOver(energy, counted(years[n]))),
          water_consumption_gallons |-> SumOver(water, counted(years[n])),
          waste_diverted_lbs |-> SumOver(waste, counted(years[n])),
          co2_emissions_tons |-> Co2Of(SumOver(energy, counted(years[n]))),
          total_buildings |->
            Cardinality({groups[i][1] : i \in counted(years[n])})]]

\* the years of the year column that are not NaN
YearsOf(monthly_df) ==
  {ParseNumber(monthly_df[i].year) :
     i \in {j \in 1..Len(monthly_df) : ~IsNaN(monthly_df[j].year)}}

\* "elif aggregate_by == 'metric_type'": one aggregate.  Every group adds its
\* building and the energy of its rows; date_range is the min and max of the
\* year column of monthly_df, None when monthly_df has no rows.
TotalAggregate(monthly_df) ==
  LET groups == SortedGroups(GroupKeys(monthly_df))
      energy == [i \in 1..Len(groups) |->
                   GroupEnergy(monthly_df, groups[i], Len(monthly_df))]
      total_energy == SumOver(energy, 1..Len(groups))
      years == YearsOf(monthly_df)
  IN  [total_energy_kwh |-> Trunc(total_energy),
       total_water_gallons |-> WaterOf(total_energy),
       total_waste_lbs |-> WasteOf(total_energy),
       total_co2_tons |-> Co2Of(total_energy),
       total_buildings |-> Cardinality({groups[i][1] : i \in 1..Len(groups)}),
       date_range |->
         [start |-> IF monthly_df = <<>> THEN None
                    ELSE Some(CHOOSE y \in years : \A z \in years : y <= z),
          end |-> IF monthly_df = <<>> THEN None
                  ELSE Some(CHOOSE y \in years : \A z \in years : y >= z)]]

\* GET /api/v1/metrics/campus-wide?year=&aggregate_by= on the rows of the
\* source file.  int(year_filter) comes first and raises ValueError on a year
\* that is not a number; int() of the NaN that min() gives on a year column
\* without a value raises too.  Both end in the handler's "except Exception".
get_campus_wide_metrics(rows, year_filter, aggregate_by) ==
  LET aggregation == Aggregation(aggregate_by)
      monthly_df ==
        IF year_filter = Empty THEN rows
        ELSE SelectSeq(rows, LAMBDA row :
                         /\ ~IsNaN(row.year)
                         /\ ParseNumber(row.year) = ParseNumber(year_filter))
  IN  IF year_filter # Empty /\ ~Parses(year_filter)
        THEN CampusError(aggregation, year_filter, 500)
      ELSE IF aggregation = "year"
        THEN CampusResponse(aggregation, year_filter, YearTotals(monthly_df))
      ELSE IF aggregation = "metric_type"
        THEN IF monthly_df # <<>> /\ YearsOf(monthly_df) = {}
               THEN CampusError(aggregation, year_filter, 500)
               ELSE CampusResponse(aggregation, year_filter,
                                   TotalAggregate(monthly_df))
      ELSE CampusError(aggregation, year_filter, 400)

\* sorted() on a list of str
RECURSIVE SortedNames(_)
SortedNames(names) ==
  IF names = {} THEN <<>>
  ELSE LET first == CHOOSE n \in names :
                      \A other \in names : other = n \/ StrLess(n, other)
       IN  <<first>> \o SortedNames(names \ {first})

\* dropna() alone
UniqueBuildings_dropna(df) ==
  {df[i].building : i \in {j \in 1..Len(df) : ~IsNaN(df[j].building)}}

\* "buildings = monthly_df['building'].dropna(); buildings =
\* buildings[buildings.str.strip() != '']; buildings.unique()"
UniqueBuildings(df) ==
  {df[i].building : i \in {j \in 1..Len(df) : NotBlank(df[j].building)}}

\* GET /api/v1/buildings on the rows of a source file that has a building
\* column; data is the 'buildings' list of the payload
list_buildings(rows) ==
  IF ~StrAccessor(rows)
    THEN ErrorResponse("buildings", Empty, Empty, 500)
    ELSE DataResponse("buildings", Empty, Empty,
                      SortedNames(UniqueBuildings(rows)))

\* month_order of the monthly endpoint
month_order ==
  <<"Jan", "Feb", "Mar", "Apr", "May", "June", "July", "Aug", "Sep", "Oct",
    "Nov", "Dec">>

\* "month_order.index(x['month']) if x['month'] in month_order else 99"
MonthIndex(month) ==
  IF \E i \in 1..Len(month_order) : month_order[i] = month
    THEN (CHOOSE i \in 1..Len(month_order) : month_order[i] = month) - 1
    ELSE 99

\* the key with the year alone
SortKey_year(x) == <<x.year, 0>>

\* the key of monthly_data.sort()
SortKey(x) == <<x.year, MonthIndex(x.month)>>

\* Python's < on the key tuples
SortKeyLess(k1, k2) == k1[1] < k2[1] \/ (k1[1] = k2[1] /\ k1[2] < k2[2])

\* list.sort(key=...): stable, entries with equal keys keep their order
RECURSIVE SortedByKey(_)
SortedByKey(list) ==
  IF list = <<>> THEN <<>>
  ELSE LET m == CHOOSE i \in 1..Len(list) :
                  \A j \in 1..Len(list) :
                     \/ SortKeyLess(SortKey(list[i]), SortKey(list[j]))
                     \/ SortKey(list[i]) = SortKey(list[j]) /\ i <= j
           rest == [j \in 1..(Len(list) - 1) |->
                      IF j < m THEN list[j] ELSE list[j + 1]]
       IN  <<list[m]>> \o SortedByKey(rest)

\* one entry of monthly_data; energy_MMBtu is round(energy_mmbtu, 1) of a
\* whole number of MMBtu
MonthlyEntry(row) ==
  [month |-> row.month,
   year |-> ParseNumber(row.year),
   energy_kwh |-> Trunc(RowEnergy(row)),
   energy_MMBtu |-> ParseNumber(row.energy_MMBtu)]

\* GET /api/v1/metrics/<building_name>/monthly on the rows of the source
\* file.  A row is appended when its energy cell is not blank and neither
\* float(energy) nor int(year) raises.
get_building_monthly_data(rows, building_name) ==
  LET building_data == FilterByBuilding(rows, building_name)
      appended == SelectSeq(building_data, Accumulates)
      monthly_data == [i \in 1..Len(appended) |-> MonthlyEntry(appended[i])]
      data == SortedByKey(monthly_data)
  IN  IF ~StrAccessor(rows)
        THEN ErrorResponse("monthly", building_name, Empty, 500)
      ELSE IF building_data = <<>>
        THEN ErrorResponse("monthly", building_name, Empty, 404)
        ELSE [endpoint |-> "monthly", building |-> building_name,
              year |-> Empty, status |-> 200, error |-> FALSE,
              count |-> Len(data),
              building_info |-> building_info(building_data),
              data |-> data]

----------------------------------------------------------------------------
(* The source file and the requests                                        *)

MaxRows == 2

WestHall == <<"W", "e", "s", "t", " ", "H", "a", "l", "l">>

EastHall == <<"E", "a", "s", "t", " ", "H", "a", "l", "l">>

Y2022 == <<"2", "0", "2", "2">>

Y02022 == <<"0", "2", "0", "2", "2">>

Y2021 == <<"2", "0", "2", "1">>

Unparseable == <<"a", "b", "c">>

E0 == <<"0">>

E100 == <<"1", "0", "0">>

E150 == <<"1", "5", "0">>

Blank == <<" ">>

Academic == <<"A", "c", "a", "d", "e", "m", "i", "c">>

Dining == <<"D", "i", "n", "i", "n", "g">>

S500 == <<"5", "0", "0">>

S900 == <<"9", "0", "0">>

Buildings == {WestHall, EastHall}

Years == {Y2022, Y02022, Y2021}

Energies == {Empty, Blank, Dots, Unparseable, E0, E100}

\* readings that carry no metadata
Readings ==
  [building : Buildings, year : Years, energy_MMBtu : Energies,
   gross_square_feet : {Empty}, occupancy : {Empty}, primary_use : {Empty}]

\* the readings of the end-to-end scenario
ScenarioReadings ==
  [building : {WestHall}, year : {Y2022}, energy_MMBtu : {E100, E150},
   gross_square_feet : {Empty}, occupancy : {Empty}, primary_use : {Empty}]

\* readings of two buildings and two years with every kind of energy cell
GroupReadings ==
  [building : Buildings, year : {Y2021, Y2022}, energy_MMBtu : Energies,
   gross_square_feet : {Empty}, occupancy : {Empty}, primary_use : {Empty}]

\* readings of two buildings and two years for the campus-wide totals
CampusReadings ==
  [building : Buildings, year : {Y2021, Y2022},
   energy_MMBtu : {Empty, E100, E150},
   gross_square_feet : {Empty}, occupancy : {Empty}, primary_use : {Empty}]

\* readings under names that differ in case only, that are blank or absent
NameReadings ==
  [building : {WestHall, Lower(WestHall), EastHall, Blank, Empty},
   year : {Y2022}, energy_MMBtu : {Empty, E100},
   gross_square_feet : {Empty}, occupancy : {Empty}, primary_use : {Empty}]

\* readings of one building with the month written out: three months of
\* month_order and the spelling 'Jun', which month_order does not have
MonthlyReadings ==
  [building : {WestHall}, month : {"Jan", "June", "Dec", "Jun"},
   year : {Y2021, Y2022}, energy_MMBtu : {Empty, E100},
   gross_square_feet : {Empty}, occupancy : {Empty}, primary_use : {Empty}]

\* readings of one building and year with metadata
MetaReadings ==
  [building : {WestHall}, year : {Y2022}, energy_MMBtu : {Empty, E100},
   gross_square_feet : {Empty, E0, S500}, occupancy : {Empty, S900},
   primary_use : {Empty, Academic, Dining}]

\* row i of a file is the reading of the i-th month
WithMonths(readings) ==
  [i \in 1..Len(readings) |->
     [building |-> readings[i].building,
      month |-> month_order[i],
      year |-> readings[i].year,
      energy_MMBtu |-> readings[i].energy_MMBtu,
      gross_square_feet |-> readings[i].gross_square_feet,
      occupancy |-> readings[i].occupancy,
      primary_use |-> readings[i].primary_use]]

FilesOf(readings) ==
  {WithMonths(f) : f \in UNION {[1..n -> readings] : n \in 0..MaxRows}}

\* The source file assets/uva_energy_data_template.csv: whether it exists and
\* the columns of its header.  Template is the monthly layout, Yearly the
\* layout of sustainability_metrics.csv, Foreign a CSV file of something else.
Template ==
  [exists |-> TRUE,
   columns |-> {"building", "month", "year", "energy_MMBtu",
                "gross_square_feet", "occupancy", "primary_use"}]

Yearly ==
  [exists |-> TRUE,
   columns |-> {"building", "year", "energy_consumption_kwh",
                "water_consumption_gallons", "waste_diverted_lbs",
                "co2_emissions_tons", "metric_type"}]

Foreign == [exists |-> TRUE, columns |-> {"name"}]

\* a file of zero bytes
ZeroBytes == [exists |-> TRUE, columns |-> {}]

Missing == [exists |-> FALSE, columns |-> {}]

Sources == {Template, Yearly, Foreign, ZeroBytes, Missing}

\* primary_use texts handed to the mappers
AcademicLibrary == <<"A", "c", "a", "d", "e", "m", "i", "c", " ", "L", "i", "b", "r", "a", "r", "y">>

ACADEMIC == <<"A", "C", "A", "D", "E", "M", "I", "C">>

DiningOffice == <<"D", "i", "n", "i", "n", "g", " ", "O", "f", "f", "i", "c", "e">>

OfficeAcademic == <<"O", "f", "f", "i", "c", "e", " ", "A", "c", "a", "d", "e", "m", "i", "c">>

MedicalFitness == <<"M", "e", "d", "i", "c", "a", "l", " ", "F", "i", "t", "n", "e", "s", "s">>

Historic == <<"H", "i", "s", "t", "o", "r", "i", "c">>

Storage == <<"S", "t", "o", "r", "a", "g", "e">>

PrimaryUses ==
  {Empty, Dots, Blank, AcademicLibrary, ACADEMIC, DiningOffice,
   OfficeAcademic, MedicalFitness, Historic, Storage, Academic, Dining}

\* files whose rows stand in any order of months
MonthlyFiles == UNION {[1..n -> MonthlyReadings] : n \in 0..MaxRows}

\* the building argument of a request: absent, or a pattern
Hall == <<"h", "a", "l", "l">>

West == <<"W", "e", "s", "t">>

\* a pattern with the regular-expression metacharacter "."
HDotLL == <<"h", ".", "l", "l">>

Nonexistent == <<"N", "o", "n", "e", "x", "i", "s", "t", "e", "n", "t">>

BuildingArgs == {Empty, Hall, West, HDotLL, Nonexistent}

YearArgs == {Empty, Y2022, Y2021}

\* One job is in flight: a run of the conversion script or one HTTP request.
\* The handlers keep nothing between requests, none of them writes the source
\* file and none reads the file the script writes, so a job sees nothing of
\* the jobs before it.
Jobs ==
  {[op |-> "convert", building |-> Empty, year |-> Empty]}
  \cup [op : {"metrics"}, building : BuildingArgs, year : YearArgs]
  \cup [op : {"building_metrics"}, building : BuildingArgs \ {Empty},
        year : {Empty}]
  \cup {[op |-> "map", primary_use |-> AcademicLibrary]}
  \cup {[op |-> "campus_wide", year |-> Empty, aggregate_by |-> None]}
  \cup {[op |-> "buildings"]}
  \cup {[op |-> "monthly", building |-> West]}
  \cup {[op |-> "health"]}

\* calls of the three versions of map_primary_use_to_metric_type
MapJobs == [op : {"map"}, primary_use : PrimaryUses]

\* the aggregate_by argument: absent, the two groupings, another word
AggregateArgs == {None, Some("year"), Some("metric_type"), Some("building")}

CampusJobs ==
  [op : {"campus_wide"}, year : {Empty, Y2022, Unparseable},
   aggregate_by : AggregateArgs]

Done == [op |-> "done", building |-> Empty, year |-> Empty]

NotRun == [ret |-> "not run", aggregated |-> <<>>, rows |-> <<>>]

NotMapped ==
  [primary_use |-> Empty, convert_uva_data_v2 |-> Empty,
   process_uva_data |-> Empty, convert_template_to_csv |-> Empty]

NoResponse == ErrorResponse("none", Empty, Empty, 0)

\* no DataFrame is loaded
NoFrame == [raised |-> FALSE, columns |-> {}, rows |-> <<>>]

Init ==
  /\ file \in FilesOf(Readings)
  /\ source = Template
  /\ pending \in Jobs
  /\ script = NotRun
  /\ mapped = NotMapped
  /\ response = NoResponse
  /\ pc = "idle"
  /\ loaded = NoFrame
  /\ versions = <<>>

InitMeta ==
  /\ file \in FilesOf(MetaReadings)
  /\ source = Template
  /\ pending \in Jobs
  /\ script = NotRun
  /\ mapped = NotMapped
  /\ response = NoResponse
  /\ pc = "idle"
  /\ loaded = NoFrame
  /\ versions = <<>>

InitScenario ==
  /\ file \in FilesOf(ScenarioReadings)
  /\ source = Template
  /\ pending \in Jobs
  /\ script = NotRun
  /\ mapped = NotMapped
  /\ response = NoResponse
  /\ pc = "idle"
  /\ loaded = NoFrame
  /\ versions = <<>>

\* python scripts/convert_uva_data_v2.py
ConvertTemplate ==
  /\ pending.op = "convert"
  /\ script' = IF source.exists /\ "energy_MMBtu" \in source.columns
                 THEN convert_template_to_metrics(file)
                 ELSE [ret |-> "False", aggregated |-> <<>>, rows |-> <<>>]
  /\ pending' = Done
  /\ UNCHANGED <<file, source, mapped, response, pc, loaded, versions>>

\* each script's call of its map_primary_use_to_metric_type
MapPrimaryUse ==
  /\ pending.op = "map"
  /\ mapped' =
       [primary_use |-> pending.primary_use,
        convert_uva_data_v2 |->
          map_primary_use_to_metric_type(pending.primary_use),
        process_uva_data |->
          process_map_primary_use_to_metric_type(pending.primary_use),
        convert_template_to_csv |->
          csv_map_primary_use_to_metric_type(pending.primary_use)]
  /\ pending' = Done
  /\ UNCHANGED <<file, source, script, response, pc, loaded, versions>>

GetAllMetrics ==
  /\ pending.op = "metrics"
  /\ response' =
       IF ~source.exists
         THEN ErrorResponse("metrics", pending.building, pending.year, 404)
       ELSE IF ReadCsvRaises(source) \/ ~MonthlyFormat(source.columns)
         THEN ErrorResponse("metrics", pending.building, pending.year, 500)
       ELSE get_all_metrics(file, pending.building, pending.year)
  /\ pending' = Done
  /\ UNCHANGED <<file, source, script, mapped, pc, loaded, versions>>

GetBuildingMetrics ==
  /\ pending.op = "building_metrics"
  /\ response' =
       IF ~source.exists
         THEN ErrorResponse("building_metrics", pending.building, Empty, 404)
       ELSE IF ReadCsvRaises(source) \/ ~MonthlyFormat(source.columns)
         THEN ErrorResponse("building_metrics", pending.building, Empty, 500)
       ELSE get_building_metrics(file, pending.building)
  /\ pending' = Done
  /\ UNCHANGED <<file, source, script, mapped, pc, loaded, versions>>

GetCampusWideMetrics ==
  /\ pending.op = "campus_wide"
  /\ response' =
       IF ~source.exists
         THEN CampusError(Aggregation(pending.aggregate_by), pending.year,
                          404)
       ELSE IF ReadCsvRaises(source) \/ ~MonthlyFormat(source.columns)
         THEN CampusError(Aggregation(pending.aggregate_by), pending.year,
                          500)
       ELSE get_campus_wide_metrics(file, pending.year, pending.aggregate_by)
  /\ pending' = Done
  /\ UNCHANGED <<file, source, script, mapped, pc, loaded, versions>>

\* the handler without its test of exists(): read_csv raises on the missing
\* file
ListBuildings_unchecked ==
  /\ pending.op = "buildings"
  /\ response' =
       IF ~source.exists \/ ReadCsvRaises(source)
            \/ "building" \notin source.columns
         THEN ErrorResponse("buildings", Empty, Empty, 500)
         ELSE list_buildings(file)
  /\ pending' = Done
  /\ UNCHANGED <<file, source, script, mapped, pc, loaded, versions>>

ListBuildings ==
  /\ pending.op = "buildings"
  /\ response' =
       IF ~source.exists
         THEN ErrorResponse("buildings", Empty, Empty, 404)
       ELSE IF ReadCsvRaises(source) \/ "building" \notin source.columns
         THEN ErrorResponse("buildings", Empty, Empty, 500)
       ELSE list_buildings(file)
  /\ pending' = Done
  /\ UNCHANGED <<file, source, script, mapped, pc, loaded, versions>>

GetBuildingMonthlyData ==
  /\ pending.op = "monthly"
  /\ response' =
       IF ~source.exists
         THEN ErrorResponse("monthly", pending.building, Empty, 404)
       ELSE IF ReadCsvRaises(source)
         THEN ErrorResponse("monthly", pending.building, Empty, 500)
       ELSE IF ~MonthlyFormat(source.columns)
         THEN ErrorResponse("monthly", pending.building, Empty, 404)
         ELSE get_building_monthly_data(file, pending.building)
  /\ pending' = Done
  /\ UNCHANGED <<file, source, script, mapped, pc, loaded, versions>>

\* GET /health
HealthCheck ==
  /\ pending.op = "health"
  /\ response' =
       [endpoint |-> "health", status |-> 200, error |-> FALSE,
        body |-> [status |-> "healthy",
                  service |-> "uva-sustainability-api",
                  data_file_exists |-> source.exists]]
  /\ pending' = Done
  /\ UNCHANGED <<file, source, script, mapped, pc, loaded, versions>>

Next ==
  \/ ConvertTemplate
  \/ MapPrimaryUse
  \/ GetAllMetrics
  \/ GetBuildingMetrics
  \/ GetCampusWideMetrics
  \/ ListBuildings
  \/ GetBuildingMonthlyData
  \/ HealthCheck

Spec == Init /\ [][Next]_vars

SpecMeta == InitMeta /\ [][Next]_vars

SpecScenario == InitScenario /\ [][Next]_vars

\* groups of absent, zero and present readings under plainly written years
InitGroups ==
  /\ file \in FilesOf(GroupReadings)
  /\ source = Template
  /\ pending \in Jobs
  /\ script = NotRun
  /\ mapped = NotMapped
  /\ response = NoResponse
  /\ pc = "idle"
  /\ loaded = NoFrame
  /\ versions = <<>>

SpecGroups == InitGroups /\ [][Next]_vars

\* campus-wide requests on files of two buildings and two years
InitCampus ==
  /\ file \in FilesOf(CampusReadings)
  /\ source = Template
  /\ pending \in Jobs \cup CampusJobs
  /\ script = NotRun
  /\ mapped = NotMapped
  /\ response = NoResponse
  /\ pc = "idle"
  /\ loaded = NoFrame
  /\ versions = <<>>

SpecCampus == InitCampus /\ [][Next]_vars

\* files whose building names differ in case, are blank or are absent
InitNames ==
  /\ file \in FilesOf(NameReadings)
  /\ source = Template
  /\ pending \in Jobs
  /\ script = NotRun
  /\ mapped = NotMapped
  /\ response = NoResponse
  /\ pc = "idle"
  /\ loaded = NoFrame
  /\ versions = <<>>

SpecNames == InitNames /\ [][Next]_vars

\* monthly requests on files whose months stand in any order
InitMonthly ==
  /\ file \in MonthlyFiles
  /\ source = Template
  /\ pending \in Jobs \cup {[op |-> "monthly", building |-> Nonexistent]}
  /\ script = NotRun
  /\ mapped = NotMapped
  /\ response = NoResponse
  /\ pc = "idle"
  /\ loaded = NoFrame
  /\ versions = <<>>

SpecMonthly == InitMonthly /\ [][Next]_vars

\* every state of the source file: missing, of zero bytes, in another
\* layout, or the template with names that may be absent
InitSource ==
  /\ file \in FilesOf(NameReadings)
  /\ source \in Sources
  /\ pending \in Jobs \cup CampusJobs
  /\ script = NotRun
  /\ mapped = NotMapped
  /\ response = NoResponse
  /\ pc = "idle"
  /\ loaded = NoFrame
  /\ versions = <<>>

SpecSource == InitSource /\ [][Next]_vars

\* the mappers on every primary_use text of the model
InitMap ==
  /\ file \in FilesOf(ScenarioReadings)
  /\ source = Template
  /\ pending \in Jobs \cup MapJobs
  /\ script = NotRun
  /\ mapped = NotMapped
  /\ response = NoResponse
  /\ pc = "idle"
  /\ loaded = NoFrame
  /\ versions = <<>>

SpecMap == InitMap /\ [][Next]_vars

----------------------------------------------------------------------------
(* Requests served while the source file is replaced or removed            *)
(*                                                                         *)
(* A handler of src/app.py is taken one statement at a time: its test of   *)
(* exists(), its call of pd.read_csv, and the statements after it, which   *)
(* work on the loaded DataFrame alone.  pc is the handler's position,      *)
(* loaded the DataFrame that read_csv returned, versions the states the    *)
(* source file has been in since the test of exists(), oldest first.       *)
(* Another process replaces the file as a whole (a rename onto its path)   *)
(* or unlinks it: read_csv, which opens the path once, reads the version   *)
(* it opened.                                                              *)

QueryOps ==
  {"metrics", "building_metrics", "campus_wide", "buildings", "monthly"}

\* the handler's answer of the given status with an error body
RequestError(job, status) ==
  IF job.op = "campus_wide"
    THEN CampusError(Aggregation(job.aggregate_by), job.year, status)
  ELSE IF job.op = "metrics"
    THEN ErrorResponse("metrics", job.building, job.year, status)
  ELSE IF job.op = "buildings"
    THEN ErrorResponse("buildings", Empty, Empty, status)
  ELSE ErrorResponse(job.op, job.building, Empty, status)

\* a read that returns the rows written so far: the last row is missing
read_csv_partial(src, rows) ==
  IF ~src.exists \/ ReadCsvRaises(src)
    THEN [raised |-> TRUE, columns |-> {}, rows |-> <<>>]
    ELSE [raised |-> FALSE, columns |-> src.columns,
          rows |-> IF rows = <<>> THEN rows
                   ELSE SubSeq(rows, 1, Len(rows) - 1)]

\* pd.read_csv(monthly_data_path): FileNotFoundError on a missing file,
\* EmptyDataError on a file of zero bytes, else the whole file
read_csv(src, rows) ==
  IF ~src.exists \/ ReadCsvRaises(src)
    THEN [raised |-> TRUE, columns |-> {}, rows |-> <<>>]
    ELSE [raised |-> FALSE, columns |-> src.columns, rows |-> rows]

\* the handler's statements after read_csv, on the DataFrame it returned
AfterRead(job, monthly_df) ==
  IF job.op = "buildings"
    THEN IF "building" \notin monthly_df.columns
           THEN RequestError(job, 500)
           ELSE list_buildings(monthly_df.rows)
  ELSE IF ~MonthlyFormat(monthly_df.columns)
    THEN RequestError(job, IF job.op = "monthly" THEN 404 ELSE 500)
  ELSE IF job.op = "metrics"
    THEN get_all_metrics(monthly_df.rows, job.building, job.year)
  ELSE IF job.op = "building_metrics"
    THEN get_building_metrics(monthly_df.rows, job.building)
  ELSE IF job.op = "campus_wide"
    THEN get_campus_wide_metrics(monthly_df.rows, job.year,
                                 job.aggregate_by)
  ELSE get_building_monthly_data(monthly_df.rows, job.building)

\* the most states of the file one request lives through
MaxVersions == 3

RaceReadings ==
  [building : {WestHall, EastHall}, year : {Y2022},
   energy_MMBtu : {E100, E150}, gross_square_feet : {Empty},
   occupancy : {Empty}, primary_use : {Empty}]

\* the files put in the place of the source file
Replacements ==
  {WithMonths(f) : f \in {<<>>} \cup
     {<<r>> : r \in {x \in RaceReadings :
                       x.building = WestHall /\ x.energy_MMBtu = E150}}}

\* if not monthly_data_path.exists(): return ..., 404
CheckExists ==
  /\ pc = "idle"
  /\ pending.op \in QueryOps
  /\ versions' = <<<<source, file>>>>
  /\ IF source.exists
       THEN pc' = "read" /\ response' = response
       ELSE pc' = "done" /\ response' = RequestError(pending, 404)
  /\ UNCHANGED <<file, source, pending, script, mapped, loaded>>

\* monthly_df = pd.read_csv(monthly_data_path); what it raises is caught by
\* the handler's except Exception, which answers 500
ReadCsv ==
  /\ pc = "read"
  /\ loaded' = read_csv(source, file)
  /\ IF loaded'.raised
       THEN pc' = "done" /\ response' = RequestError(pending, 500)
       ELSE pc' = "respond" /\ response' = response
  /\ UNCHANGED <<file, source, pending, script, mapped, versions>>

\* the format test, the aggregation and return jsonify(...)
Respond ==
  /\ pc = "respond"
  /\ response' = AfterRead(pending, loaded)
  /\ pc' = "done"
  /\ UNCHANGED <<file, source, pending, script, mapped, loaded, versions>>

\* another process renames a complete monthly file onto the path
ReplaceFile ==
  /\ pc \in {"read", "respond"}
  /\ Len(versions) < MaxVersions
  /\ file' \in Replacements
  /\ source' = Template
  /\ <<source', file'>> # <<source, file>>
  /\ versions' = Append(versions, <<source', file'>>)
  /\ UNCHANGED <<pending, script, mapped, response, pc, loaded>>

\* another process unlinks the file
RemoveFile ==
  /\ pc \in {"read", "respond"}
  /\ Len(versions) < MaxVersions
  /\ source.exists
  /\ file' = <<>>
  /\ source' = Missing
  /\ versions' = Append(versions, <<source', file'>>)
  /\ UNCHANGED <<pending, script, mapped, response, pc, loaded>>

NextRace ==
  \/ ConvertTemplate
  \/ MapPrimaryUse
  \/ HealthCheck
  \/ CheckExists
  \/ ReadCsv
  \/ Respond
  \/ ReplaceFile
  \/ RemoveFile

InitRace ==
  /\ file \in FilesOf(RaceReadings)
  /\ source \in {Template, ZeroBytes, Missing}
  /\ pending \in Jobs
  /\ script = NotRun
  /\ mapped = NotMapped
  /\ response = NoResponse
  /\ pc = "idle"
  /\ loaded = NoFrame
  /\ versions = <<>>

SpecRace == InitRace /\ [][NextRace]_vars

----------------------------------------------------------------------------
(* Properties                                                              *)

\* a reading's energy is absent: empty, whitespace, "..." or not a number
AbsentEnergy(row) ==
  \/ Strip(row.energy_MMBtu) = Empty
  \/ Strip(row.energy_MMBtu) = Dots
  \/ ~Parses(row.energy_MMBtu)

\* the readings of the (building, year) group, year being an integer
GroupOf(building, year) ==
  {j \in 1..Len(file) :
     /\ Strip(file[j].building) = building
     /\ Parses(file[j].year) /\ ParseNumber(file[j].year) = year}

Unfiltered ==
  /\ response.endpoint = "metrics"
  /\ response.building = Empty /\ response.year = Empty

\* C1: a (building, year) group whose readings all have absent energy gives
\* no YearlyMetric, in the script's output and in the getMetrics result:
\* every record has a reading with present energy in its group.
C1_ZeroEligibleExcluded ==
  /\ \A i \in 1..Len(script.rows) :
        \E j \in GroupOf(script.rows[i].building, script.rows[i].year) :
           ~AbsentEnergy(file[j])
  /\ response.endpoint = "metrics" =>
        \A i \in 1..Len(response.data) :
           \E j \in GroupOf(response.data[i].building, response.data[i].year) :
              ~AbsentEnergy(file[j])

\* getMetrics answered on a file that has a group of absent readings only,
\* next to a group it reports
C1_Witness ==
  /\ Unfiltered /\ response.count > 0
  /\ \E j \in 1..Len(file) :
        \A k \in GroupOf(file[j].building, ParseNumber(file[j].year)) :
           AbsentEnergy(file[k])

\* C2: at most one YearlyMetric per (building, integer year) in the script's
\* output and in the getMetrics result.
C2_Uniqueness ==
  /\ \A i, j \in 1..Len(script.rows) :
        /\ script.rows[i].building = script.rows[j].building
        /\ script.rows[i].year = script.rows[j].year
        => i = j
  /\ response.endpoint = "metrics" =>
        \A i, j \in 1..Len(response.data) :
           /\ response.data[i].building = response.data[j].building
           /\ response.data[i].year = response.data[j].year
           => i = j

ScenarioFile ==
  WithMonths(<<[building |-> WestHall, year |-> Y2022, energy_MMBtu |-> E100,
                gross_square_feet |-> Empty, occupancy |-> Empty,
                primary_use |-> Empty],
               [building |-> WestHall, year |-> Y2022, energy_MMBtu |-> E150,
                gross_square_feet |-> Empty, occupancy |-> Empty,
                primary_use |-> Empty]>>)

\* exactly one record, for (West Hall, 2022), with the given energy and CO2
ScenarioResult(data, energy_kwh, co2_tenths) ==
  /\ Len(data) = 1
  /\ data[1].building = WestHall
  /\ data[1].year = 2022
  /\ data[1].energy_consumption_kwh = energy_kwh
  /\ data[1].co2_emissions_tons = co2_tenths

RECURSIVE KwhSum(_, _, _)
KwhSum(building, year, n) ==
  IF n = 0 THEN 0
  ELSE KwhSum(building, year, n - 1)
         + (IF n \in GroupOf(building, year) /\ ~AbsentEnergy(file[n])
              THEN convert_mmbtu_to_kwh(Strip(file[n].energy_MMBtu))[1]
              ELSE 0)

\* the same sum of the API's kWh values, in milli-kWh
RECURSIVE MilliKwhSum(_, _, _)
MilliKwhSum(building, year, n) ==
  IF n = 0 THEN 0
  ELSE MilliKwhSum(building, year, n - 1)
         + (IF n \in GroupOf(building, year) /\ ~AbsentEnergy(file[n])
              THEN ParseNumber(file[n].energy_MMBtu) * MMBTU_TO_KWH
              ELSE 0)

\* C4: the energy_consumption_kwh of a YearlyMetric is the sum of the kWh
\* values of exactly the readings of its (building, year) group that have
\* present energy.
C4_Summation ==
  /\ \A i \in 1..Len(script.rows) :
        script.rows[i].energy_consumption_kwh
          = KwhSum(script.rows[i].building, script.rows[i].year, Len(file))
  /\ response.endpoint = "metrics" =>
        \A i \in 1..Len(response.data) :
           response.data[i].energy_consumption_kwh
             = Trunc(MilliKwhSum(response.data[i].building,
                                 response.data[i].year, Len(file)))

\* a reading whose energy is explicitly 0
ZeroEnergy(row) ==
  Parses(row.energy_MMBtu) /\ ParseNumber(row.energy_MMBtu) = 0

HasRecord(data, row) ==
  \E i \in 1..Len(data) :
     /\ data[i].building = Strip(row.building)
     /\ data[i].year = ParseNumber(row.year)

\* C5: a reading of 0 MMBtu converts to 0 kWh and counts as present: its
\* group is reported by the script and by getMetrics.
C5_ZeroIsPresent ==
  /\ convert_mmbtu_to_kwh(E0) = Some(0)
  /\ script.ret # "not run" =>
        \A j \in 1..Len(file) : ZeroEnergy(file[j]) => HasRecord(script.rows, file[j])
  /\ Unfiltered =>
        \A j \in 1..Len(file) : ZeroEnergy(file[j]) => HasRecord(response.data, file[j])

\* the first present (non-empty, not "...") cell of a field, in row order
RECURSIVE FirstPresent(_, _)
FirstPresent(rows, field) ==
  IF rows = <<>> THEN Empty
  ELSE IF Strip(rows[1][field]) # Empty /\ Strip(rows[1][field]) # Dots
    THEN Strip(rows[1][field])
    ELSE FirstPresent(Tail(rows), field)

NumberOrZero(text) == IF Parses(text) THEN ParseNumber(text) ELSE 0

\* C6: the metadata of a surviving group is the first present value among
\* all readings of the group in row order, readings with absent energy
\* included.
C6_MetadataFirstWins ==
  /\ \A i \in 1..Len(script.aggregated) :
        LET entry == script.aggregated[i]
            group == SelectSeq(file, LAMBDA row :
                       /\ Strip(row.building) = entry.key[1]
                       /\ ParseNumber(row.year) = ParseNumber(entry.key[2]))
        IN  /\ entry.primary_use = FirstPresent(group, "primary_use")
            /\ entry.gross_square_feet
                 = NumberOrZero(FirstPresent(group, "gross_square_feet"))
            /\ entry.occupancy = NumberOrZero(FirstPresent(group, "occupancy"))
  /\ response.endpoint = "building_metrics" =>
        \A i \in 1..Len(response.data) :
           LET group == SelectSeq(file, LAMBDA row :
                          /\ StrContains(response.building, row.building)
                          /\ ParseNumber(row.year) = response.data[i].year)
               use == FirstPresent(group, "primary_use")
           IN  response.data[i].metric_type
                 = IF use = Empty THEN Text_unknown ELSE use

Derived(record) ==
  LET E == record.energy_consumption_kwh
  IN  /\ record.water_consumption_gallons = E \div 2
      /\ record.waste_diverted_lbs = E \div 30
      /\ record.co2_emissions_tons = (E * 4 + 500) \div 1000

\* C7: every YearlyMetric of the script and of the query layer with energy E
\* has water = floor(E * 0.5), waste = floor(E / 30) and
\* co2 = round(E * 0.0004, 1).
C7_Derivation ==
  /\ \A i \in 1..Len(script.rows) : Derived(script.rows[i])
  /\ response.endpoint \in {"metrics", "building_metrics"} =>
        \A i \in 1..Len(response.data) : Derived(response.data[i])

\* C8: getBuildingMetrics never answers 200 with an empty data list.
C8_NeverEmptySuccess ==
  response.endpoint = "building_metrics" /\ response.status = 200
    => response.data # <<>>

\* C9: getMetrics returns exactly the YearlyMetric records whose building
\* contains the building argument as a case-insensitive substring and whose
\* year equals the year argument, an absent argument passing every record,
\* and count is the number of records.
C9_FilterExact ==
  response.endpoint = "metrics" /\ response.status = 200 =>
    LET all == get_all_metrics(file, Empty, Empty).data
        wanted == SelectSeq(all, LAMBDA record :
                    /\ \/ response.building = Empty
                       \/ Contains(Lower(response.building),
                                   Lower(record.building))
                    /\ \/ response.year = Empty
                       \/ record.year = ParseNumber(response.year))
    IN  /\ response.data = wanted
        /\ response.count = Len(response.data)

\* C10: the script's output is sorted by building ascending and, within a
\* building, by year ascending as an integer.
C10_Sorted ==
  \A i, j \in 1..Len(script.rows) :
     i < j =>
       \/ StrLess(script.rows[i].building, script.rows[j].building)
       \/ /\ script.rows[i].building = script.rows[j].building
          /\ script.rows[i].year <= script.rows[j].year

\* the entries of a keyword table whose keyword occurs in the text, letters
\* compared without regard to case
Matching(table, text) ==
  {i \in 1..Len(table) :
     \E k \in 0..(Len(text) - Len(table[i][1])) :
        \A j \in 1..Len(table[i][1]) :
           LowerChar(text[k + j]) = table[i][1][j]}

\* the category is that of the matching entry that comes first in the table
FirstEntryWins(table, text, metric_type) ==
  Matching(table, text) # {} =>
    \E i \in Matching(table, text) :
       /\ \A j \in Matching(table, text) : i <= j
       /\ metric_type = table[i][2]

\* C11: map_primary_use_to_metric_type returns the category of the first
\* entry, in table order, whose keyword is a substring of the lower-cased
\* input, also when a later keyword matches; 'Academic Library' maps to
\* academic; matching is case-insensitive.
C11_FirstMatchWins ==
  mapped # NotMapped =>
    /\ FirstEntryWins(mapping, mapped.primary_use, mapped.convert_uva_data_v2)
    /\ FirstEntryWins(process_mapping, mapped.primary_use,
                      mapped.process_uva_data)
    /\ FirstEntryWins(csv_mapping, mapped.primary_use,
                      mapped.convert_template_to_csv)
    /\ mapped.primary_use = AcademicLibrary =>
          /\ mapped.convert_uva_data_v2 = Text_academic
          /\ mapped.convert_template_to_csv = Text_academic

\* a text in which two keywords of different categories occur, the one that
\* is later in the table standing first in the text
C11_Witness ==
  /\ mapped.primary_use = OfficeAcademic
  /\ Cardinality(Matching(mapping, mapped.primary_use)) = 2
  /\ mapped.convert_uva_data_v2 = Text_academic
  /\ mapped.convert_template_to_csv = Text_administrative

Categories ==
  {Text_academic, Text_student_life, Text_athletic, Text_healthcare,
   Text_administrative, Text_historic, Text_other}

DefaultsToOther(table, text, metric_type) ==
  /\ text \in {Empty, Dots} => metric_type = Text_other
  /\ Matching(table, text) = {} => metric_type = Text_other
  /\ metric_type \in Categories

\* C12: in every version of map_primary_use_to_metric_type an absent, empty
\* or '...' primary_use maps to other, a text with none of the version's
\* keywords maps to other, and the result is always one of the seven
\* categories.
C12_DefaultOther ==
  mapped # NotMapped =>
    /\ DefaultsToOther(mapping, mapped.primary_use, mapped.convert_uva_data_v2)
    /\ DefaultsToOther(process_mapping, mapped.primary_use,
                       mapped.process_uva_data)
    /\ DefaultsToOther(csv_mapping, mapped.primary_use,
                       mapped.convert_template_to_csv)

\* the placeholder went through the version that has no test for it, and a
\* text with a keyword of one version only through the others
C12_Witness ==
  \/ /\ mapped.primary_use = Dots
     /\ mapped.convert_template_to_csv = Text_other
  \/ /\ mapped.primary_use = Historic
     /\ mapped.process_uva_data = Text_other
     /\ mapped.convert_uva_data_v2 = Text_historic

\* C13: every YearlyMetric returned by getMetrics and by getBuildingMetrics
\* carries a metric_type that is one of the seven categories.
C13_MetricTypeInEnum ==
  response.endpoint \in {"metrics", "building_metrics"} =>
    \A i \in 1..Len(response.data) :
       /\ "metric_type" \in DOMAIN response.data[i]
       /\ response.data[i].metric_type \in Categories

\* the records getMetrics returns for the year filter of the response
MetricsOf(year_filter) == get_all_metrics(file, Empty, year_filter).data

\* C14: for every year of getCampusWide(groupBy='year') each of the four
\* totals is the sum of that metric over the records getMetrics returns for
\* the year, and total_buildings is the number of distinct buildings that
\* have a record for the year.
C14_YearTotalsAreSums ==
  /\ response.endpoint = "campus_wide" /\ response.status = 200
  /\ response.aggregation = "year"
  => LET metrics == MetricsOf(response.year)
         energy == [k \in 1..Len(metrics) |->
                      metrics[k].energy_consumption_kwh]
         water == [k \in 1..Len(metrics) |->
                     metrics[k].water_consumption_gallons]
         waste == [k \in 1..Len(metrics) |-> metrics[k].waste_diverted_lbs]
         co2 == [k \in 1..Len(metrics) |-> metrics[k].co2_emissions_tons]
     IN  \A i \in 1..Len(response.data) :
            LET total == response.data[i]
                of_year == {k \in 1..Len(metrics) :
                              metrics[k].year = total.year}
            IN  /\ total.energy_consumption_kwh = SumOver(energy, of_year)
                /\ total.water_consumption_gallons = SumOver(water, of_year)
                /\ total.waste_diverted_lbs = SumOver(waste, of_year)
                /\ total.co2_emissions_tons = SumOver(co2, of_year)
                /\ total.total_buildings
                     = Cardinality({metrics[k].building : k \in of_year})

\* C15: getCampusWide(groupBy='metric_type') returns one aggregate whose
\* totals are the sums over the records getMetrics returns under the same
\* year filter and whose date_range is the least and the greatest year of
\* those records, so that start <= end; both are null when there is no
\* record.
C15_AggregateOverMetrics ==
  /\ response.endpoint = "campus_wide" /\ response.status = 200
  /\ response.aggregation = "metric_type"
  => LET metrics == MetricsOf(response.year)
         all == 1..Len(metrics)
         energy == [k \in all |-> metrics[k].energy_consumption_kwh]
         water == [k \in all |-> metrics[k].water_consumption_gallons]
         waste == [k \in all |-> metrics[k].waste_diverted_lbs]
         co2 == [k \in all |-> metrics[k].co2_emissions_tons]
         years == {metrics[k].year : k \in all}
         total == response.data
     IN  /\ total.total_energy_kwh = SumOver(energy, all)
         /\ total.total_water_gallons = SumOver(water, all)
         /\ total.total_waste_lbs = SumOver(waste, all)
         /\ total.total_co2_tons = SumOver(co2, all)
         /\ years = {} =>
              total.date_range.start = None /\ total.date_range.end = None
         /\ years # {} =>
              /\ total.date_range.start # None
              /\ total.date_range.end # None
              /\ total.date_range.start[1] \in years
              /\ total.date_range.end[1] \in years
              /\ \A y \in years :
                    /\ total.date_range.start[1] <= y
                    /\ y <= total.date_range.end[1]

\* C16: with the source file present and in the monthly layout, a
\* getCampusWide request whose aggregate_by is neither 'year' nor
\* 'metric_type' is answered 400 with an error payload and no aggregate data,
\* whatever the year filter.
C16_InvalidAggregateBy ==
  /\ source.exists /\ MonthlyFormat(source.columns)
  /\ response.endpoint = "campus_wide"
  /\ response.aggregation \notin {"year", "metric_type"}
  => /\ response.status = 400
     /\ response.error
     /\ response.data = <<>>

\* C17: listBuildings returns each building name of the dataset exactly
\* once, as it is written in the file, in ascending order, never an absent,
\* empty or whitespace-only name, and count is the length of the list.
C17_DistinctSortedNames ==
  response.endpoint = "buildings" /\ response.status = 200 =>
    /\ \A j \in 1..Len(file) :
          Strip(file[j].building) # Empty =>
            \E i \in 1..Len(response.data) :
               response.data[i] = file[j].building
    /\ \A i \in 1..Len(response.data) :
          /\ \E j \in 1..Len(file) : file[j].building = response.data[i]
          /\ Strip(response.data[i]) # Empty
    /\ \A i, j \in 1..Len(response.data) :
          i < j => StrLess(response.data[i], response.data[j])
    /\ response.count = Len(response.data)

\* the file names the lower-case spelling first; both spellings are listed,
\* the capital first
C17_Witness ==
  /\ response.endpoint = "buildings" /\ response.status = 200
  /\ Len(file) = 2
  /\ file[1].building = Lower(WestHall) /\ file[2].building = WestHall
  /\ response.data = <<WestHall, Lower(WestHall)>>

\* the months of the MonthlyReading enum, in calendar order
CalendarMonths == {month_order[i] : i \in 1..Len(month_order)}

CalendarPosition(month) ==
  CHOOSE i \in 1..Len(month_order) : month_order[i] = month

DataEndpoints ==
  {"buildings", "metrics", "building_metrics", "campus_wide", "monthly"}

\* C19: every request to a data endpoint ends in a response with status 200,
\* 400, 404 or 500; a missing source file gives the error response 404, an
\* exception raised while processing (read_csv on a file of zero bytes, .str
\* on a building column without a value, int() of a year that is not a
\* number) gives the error response 500.
C19_ErrorBoundary ==
  response.endpoint \in DataEndpoints =>
        /\ response.status \in {200, 400, 404, 500}
        /\ response.error <=> response.status # 200
        /\ ~source.exists => response.status = 404
        /\ source.exists /\ ReadCsvRaises(source) => response.status = 500
        /\ (/\ source = Template
            /\ response.endpoint \in {"metrics", "building_metrics", "monthly"}
            /\ response.building # Empty
            /\ ~StrAccessor(file)) => response.status = 500
        /\ (/\ source = Template
            /\ response.endpoint = "campus_wide"
            /\ response.year # Empty /\ ~Parses(response.year))
           => response.status = 500

\* .str raised on a building column without a value, and the request for a
\* building was answered 500
C19_Witness ==
  /\ source = Template
  /\ response.endpoint = "building_metrics"
  /\ file # <<>> /\ ~StrAccessor(file)
  /\ response.status = 500 /\ response.error

\* C20: GET /health is answered 200 in every state of the source file, with
\* a body that has status, service and a boolean data_loaded.
C20_HealthBody ==
  response.endpoint = "health" =>
    /\ response.status = 200
    /\ {"status", "service", "data_loaded"} \subseteq DOMAIN response.body
    /\ response.body.data_loaded \in BOOLEAN

\* the DataFrame that holds one whole version of the file
SnapshotOf(version) ==
  [raised |-> FALSE, columns |-> version[1].columns, rows |-> version[2]]

\* a version that read_csv loads
Readable(version) == version[1].exists /\ ~ReadCsvRaises(version[1])

C22_ScriptMatchesApi ==
  script.ret = "True" =>
    LET api == MetricsOf(Empty)
        KeyOf(record) == <<record.building, record.year>>
    IN  /\ {KeyOf(script.rows[i]) : i \in 1..Len(script.rows)}
             = {KeyOf(api[j]) : j \in 1..Len(api)}
        /\ \A i \in 1..Len(script.rows) : \A j \in 1..Len(api) :
             KeyOf(script.rows[i]) = KeyOf(api[j])
               => script.rows[i].energy_consumption_kwh
                    = api[j].energy_consumption_kwh

\* C23: getBuildingMetrics is consistent with getMetrics.  Every record of
\* a 200 response of GET /api/v1/metrics/<building_name> carries the name
\* of a building of the dataset and the energy_consumption_kwh of the
\* getMetrics record of that building and year.
C23_ConsistentWithMetrics ==
  (response.endpoint = "building_metrics" /\ response.status = 200) =>
    \A i \in 1..Len(response.data) :
      \E j \in 1..Len(MetricsOf(Empty)) :
        /\ MetricsOf(Empty)[j].building = response.data[i].building
        /\ MetricsOf(Empty)[j].year = response.data[i].year
        /\ MetricsOf(Empty)[j].energy_consumption_kwh
             = response.data[i].energy_consumption_kwh

\* C24: every year entry of getCampusWide(groupBy='year') has
\* total_buildings >= 1 and energy_consumption_kwh > 0: a year whose
\* (building, year) groups all lack eligible readings is not in the result.
C24_YearEntriesHaveEnergy ==
  (/\ response.endpoint = "campus_wide"
   /\ response.status = 200
   /\ response.aggregation = "year") =>
    \A i \in 1..Len(response.data) :
      /\ response.data[i].total_buildings >= 1
      /\ response.data[i].energy_consumption_kwh > 0
====
